---------------------------- MODULE Spec2Model ----------------------------
(***************************************************************************)
(* A model of XLSXtract.py: the extraction of candidate password strings   *)
(* from the cells of spreadsheet files, their filtering, and the merge of  *)
(* every file's result into one sorted, unique word list.                  *)
(*                                                                         *)
(* A string is a sequence of Unicode codepoints.  The character predicates *)
(* are Python's, stated for the codepoints 0..255 and 8203 (ZERO WIDTH     *)
(* SPACE), which is where every character of the model comes from.         *)
(***************************************************************************)
EXTENDS Integers, Sequences, FiniteSets, TLC

(***************************************************************************)
(* Bounds of the model.                                                    *)
(***************************************************************************)
\* the most files a directory listing holds
MaxFiles == 2
\* the most cells a workbook yields
MaxCells == 2

(***************************************************************************)
(* Characters (str.isspace, str.isprintable, the classes of the regular    *)
(* expressions of is_complex_password).                                    *)
(***************************************************************************)
\* str.isspace() of one character
IsSpace(c) ==
    c \in (9..13) \cup (28..32) \cup {133, 160, 5760} \cup (8192..8202)
          \cup {8232, 8233, 8239, 8287, 12288}

\* str.isprintable() of one character
IsPrintable(c) == c \in (32..126) \cup ((161..255) \ {173})

\* [A-Z]
IsUpperAZ(c) == c \in 65..90

\* [a-z]
IsLowerAZ(c) == c \in 97..122

\* \d
IsDigit(c) == c \in 48..57

\* [!@#$%^&*()_+\-=\[\]{}|;:,.<>?/~`]
IsSpecial(c) ==
    c \in {33, 35, 36, 37, 38, 40, 41, 42, 43, 44, 45, 46, 47, 58, 59, 60,
           61, 62, 63, 64, 91, 93, 94, 95, 96, 123, 124, 125, 126}

\* the characters of a string
Chars(s) == {s[i] : i \in 1..Len(s)}

(***************************************************************************)
(* Strings.                                                                *)
(***************************************************************************)
\* str.strip(): the string without its leading and trailing whitespace
Strip(s) ==
    LET keep == {i \in 1..Len(s) : ~IsSpace(s[i])}
    IN  IF keep = {} THEN <<>>
        ELSE LET lo == CHOOSE i \in keep : \A j \in keep : i <= j
                 hi == CHOOSE i \in keep : \A j \in keep : j <= i
             IN  SubSeq(s, lo, hi)

\* Clean as it would be if only whitespace were removed
CleanKeepsNonPrintable(s) == SelectSeq(s, LAMBDA c : ~IsSpace(c))

\* ''.join(c for c in word if c.isprintable() and not c.isspace())
Clean(s) == SelectSeq(s, LAMBDA c : IsPrintable(c) /\ ~IsSpace(c))

\* re.split("[" + re.escape(split_chars) + "]+", text): the pieces between
\* the maximal runs of characters of D, the empty pieces at both ends included
RECURSIVE ReSplit(_, _)
ReSplit(s, D) ==
    LET hits == {i \in 1..Len(s) : s[i] \in D}
    IN  IF hits = {} THEN <<s>>
        ELSE LET i == CHOOSE k \in hits : \A m \in hits : k <= m
                 after == {k \in (i + 1)..Len(s) : s[k] \notin D}
                 j == IF after = {} THEN Len(s) + 1
                      ELSE CHOOSE k \in after : \A m \in after : k <= m
             IN  <<SubSeq(s, 1, i - 1)>> \o ReSplit(SubSeq(s, j, Len(s)), D)

\* lines 102-108: the candidates of a cell text
WordsToProcess(text, split_chars) ==
    IF split_chars # <<>> THEN ReSplit(text, Chars(split_chars)) ELSE <<text>>

\* is_complex_password as it would be without the test for a special character
is_complex_password_no_special(word) ==
    LET has_upper == \E i \in 1..Len(word) : IsUpperAZ(word[i])
        has_lower == \E i \in 1..Len(word) : IsLowerAZ(word[i])
        has_digit == \E i \in 1..Len(word) : IsDigit(word[i])
    IN  has_upper /\ has_lower /\ has_digit

\* is_complex_password
is_complex_password(word) ==
    LET has_upper == \E i \in 1..Len(word) : IsUpperAZ(word[i])
        has_lower == \E i \in 1..Len(word) : IsLowerAZ(word[i])
        has_digit == \E i \in 1..Len(word) : IsDigit(word[i])
        has_special == \E i \in 1..Len(word) : IsSpecial(word[i])
    IN  has_upper /\ has_lower /\ has_digit /\ has_special

\* the decimal digits of a natural number, as str(int) writes them
RECURSIVE Decimal(_)
Decimal(n) == IF n < 10 THEN <<48 + n>> ELSE Decimal(n \div 10) \o <<48 + (n % 10)>>

\* str(cell.value) of a cell value that is not None
StrOf(v) ==
    CASE v.kind = "str" -> v.s
      [] v.kind = "int" -> Decimal(v.n)
      [] v.kind = "bool" -> IF v.b THEN <<84, 114, 117, 101>>
                                   ELSE <<70, 97, 108, 115, 101>>

\* the order of str: by codepoint, a proper prefix first
RECURSIVE StrLess(_, _)
StrLess(a, b) ==
    IF b = <<>> THEN FALSE
    ELSE IF a = <<>> THEN TRUE
    ELSE IF a[1] # b[1] THEN a[1] < b[1]
    ELSE StrLess(Tail(a), Tail(b))

\* sorted as it would be if it ordered the words by length first
RECURSIVE sortedByLength(_)
sortedByLength(S) ==
    IF S = {} THEN <<>>
    ELSE LET m == CHOOSE x \in S : \A y \in S \ {x} :
                      \/ Len(x) < Len(y)
                      \/ Len(x) = Len(y) /\ StrLess(x, y)
         IN  <<m>> \o sortedByLength(S \ {m})

\* sorted(all_words)
RECURSIVE sorted(_)
sorted(S) ==
    IF S = {} THEN <<>>
    ELSE LET m == CHOOSE x \in S : \A y \in S \ {x} : StrLess(x, y)
         IN  <<m>> \o sorted(S \ {m})

\* lines 213-214: what the write calls put in the file, f"{word}\n" for each
\* word of the list
RECURSIVE Written(_)
Written(words) ==
    IF words = <<>> THEN <<>> ELSE Head(words) \o <<10>> \o Written(Tail(words))

\* str.lower() of a string of the model's codepoints
Lower(s) ==
    [i \in 1..Len(s) |->
        IF s[i] \in (65..90) \cup ((192..222) \ {215}) THEN s[i] + 32 ELSE s[i]]

\* str.endswith
EndsWith(s, suffix) ==
    /\ Len(s) >= Len(suffix)
    /\ SubSeq(s, Len(s) - Len(suffix) + 1, Len(s)) = suffix


(***************************************************************************)
(* Inputs: the command line, the directory listing, the cells.             *)
(***************************************************************************)
\* ".xlsx"
DotXlsx == <<46, 120, 108, 115, 120>>

\* the name of the k-th of the files a directory may hold: "A.xlsx",
\* "b.xlsx", "c.xlsx", ...
FileName(k) == <<(IF k = 1 THEN 65 ELSE 96 + k)>> \o DotXlsx

\* what directory_path.rglob("*.xlsx") may yield in a directory that holds
\* some of n files: the files it holds, each once, in the order the file
\* system lists them, which is any order
Listings(n) ==
    {l \in UNION {[1..m -> 1..n] : m \in 0..n} :
        \A i, j \in 1..Len(l) : i # j => l[i] # l[j]}

\* -f: none, "a", "b.XLSX"
FilenameChoices == {<<>>, <<97>>, <<98, 46, 88, 76, 83, 88>>}

\* -s: none, " ;"
SplitCharsChoices == {<<>>, <<32, 59>>}

\* -l
MaxLengthChoices == {0, 2, 4}

\* the output path before the run: no file, or a file that reads "old\n"
NoFile == [exists |-> FALSE, content |-> <<>>]
OldFile == [exists |-> TRUE, content |-> <<111, 108, 100, 10>>]

Text(s) == [kind |-> "str", s |-> s]

\* the values a cell may hold
CellValues ==
    { [kind |-> "none"],
      [kind |-> "int", n |-> 12],
      [kind |-> "bool", b |-> TRUE],
      Text(<<32>>),                        \* " "
      Text(<<8203>>),                      \* one ZERO WIDTH SPACE
      Text(<<97>>),                        \* "a"
      Text(<<59, 97, 59>>),                \* ";a;"
      Text(<<97, 59, 59, 97>>),            \* "a;;a"
      Text(<<65, 97, 49, 33>>),            \* "Aa1!"
      Text(<<65, 97, 32, 49, 33>>),        \* "Aa 1!"
      Text(<<97, 32, 8203, 49>>),          \* "a", " ", ZERO WIDTH SPACE, "1"
      Text(<<65, 97, 49>>),                \* "Aa1"
      Text(<<65, 97, 33>>),                \* "Aa!"
      Text(<<65, 49, 33>>),                \* "A1!"
      Text(<<97, 49, 33>>) }               \* "a1!"

\* the values a cell may hold in the workbooks of a directory of several
CellValuesFew ==
    { Text(<<97>>),                        \* "a"
      Text(<<65, 97, 49, 33>>),            \* "Aa1!"
      Text(<<65, 97, 32, 49, 33>>) }       \* "Aa 1!"

\* The inputs of a run are drawn from one of two families: "directory", up
\* to MaxFiles workbooks with cells of CellValuesFew, and "workbook", at
\* most one workbook with cells of CellValues.
Worlds == {"directory", "workbook"}
ListingsOf(w) == IF w = "directory" THEN Listings(MaxFiles) ELSE Listings(1)
CellsOf(w) == IF w = "directory" THEN CellValuesFew ELSE CellValues

(***************************************************************************)
(* The state.                                                              *)
(***************************************************************************)
VARIABLES
    world,            \* the family the run's inputs are drawn from
    args,             \* the parsed command line and whether -d is a directory
    disk,             \* the file at the output path
    disk0,            \* the file at the output path before the run
    opens,            \* how many times the output path was opened for writing
    pc,               \* where main is
    listed,           \* what rglob yielded
    xlsx_files,       \* main: the discovered files
    fi,               \* main: how many files the loop of line 203 has taken
    total_files, total_words, total_skipped, all_words,
    text_values, word_count, skipped_words,   \* extract_text_from_xlsx
    cells_read,       \* how many cells the workbook has yielded
    text,             \* the stripped text of the last cell that held a value
    words_to_process, \* the candidates of the current cell
    wi,               \* how many of them the loop of line 110 has taken
    ret,              \* what extract_text_from_xlsx returned
    returned          \* the history of the calls of extract_text_from_xlsx: what
                      \* each returned, whether it raised, and whether it
                      \* had found a word when it ended

vars == <<world, args, disk, disk0, opens, pc, listed, xlsx_files, fi, total_files, total_words,
          total_skipped, all_words, text_values, word_count, skipped_words,
          cells_read, text, words_to_process, wi, ret, returned>>

mainVars == <<xlsx_files, fi, total_files, total_words, total_skipped, all_words>>
localVars == <<text_values, word_count, skipped_words, cells_read, text,
               words_to_process, wi>>
envVars == <<world, args, disk0, listed>>

EmptyResult == [text_values |-> {}, word_count |-> 0, skipped_words |-> 0]

Init ==
    /\ world \in Worlds
    /\ args \in [directory_is_dir : BOOLEAN,
                 filename : FilenameChoices,
                 split_chars : SplitCharsChoices,
                 max_length : MaxLengthChoices,
                 complexity : BOOLEAN]
    /\ disk \in {NoFile, OldFile}
    /\ disk0 = disk
    /\ opens = 0
    /\ pc = "start"
    /\ listed = <<>>
    /\ xlsx_files = <<>>
    /\ fi = 0
    /\ total_files = 0
    /\ total_words = 0
    /\ total_skipped = 0
    /\ all_words = {}
    /\ text_values = {}
    /\ word_count = 0
    /\ skipped_words = 0
    /\ cells_read = 0
    /\ text = <<>>
    /\ words_to_process = <<>>
    /\ wi = 0
    /\ ret = EmptyResult
    /\ returned = <<>>

(***************************************************************************)
(* find_xlsx_files                                                         *)
(***************************************************************************)
find_xlsx_files(listing, filename_pattern) ==
    IF filename_pattern # <<>>
    THEN LET pattern == IF ~EndsWith(Lower(filename_pattern), DotXlsx)
                        THEN filename_pattern \o DotXlsx
                        ELSE filename_pattern
         IN  SelectSeq(listing, LAMBDA f : Lower(f) = Lower(pattern))
    ELSE listing

(***************************************************************************)
(* main, up to the loop over the files.                                    *)
(***************************************************************************)
\* Discover as it would be without the return of line 198
DiscoverNoReturn ==
    /\ pc = "start"
    /\ args.directory_is_dir
    /\ \E listing \in ListingsOf(world) :
         LET names == [i \in 1..Len(listing) |-> FileName(listing[i])]
             found == find_xlsx_files(names, args.filename)
         IN  /\ listed' = names
             /\ xlsx_files' = found
             /\ pc' = "loop"
    /\ total_files' = 0
    /\ total_words' = 0
    /\ total_skipped' = 0
    /\ all_words' = {}
    /\ UNCHANGED <<world, args, disk, disk0, opens, fi, localVars, ret, returned>>

\* lines 170-172: the directory does not exist
InvalidRoot ==
    /\ pc = "start"
    /\ ~args.directory_is_dir
    /\ pc' = "done"
    /\ UNCHANGED <<envVars, disk, opens, mainVars, localVars, ret, returned>>

\* lines 174-200: the statistics start at zero and the files are discovered;
\* with no file found main returns
Discover ==
    /\ pc = "start"
    /\ args.directory_is_dir
    /\ \E listing \in ListingsOf(world) :
         LET names == [i \in 1..Len(listing) |-> FileName(listing[i])]
             found == find_xlsx_files(names, args.filename)
         IN  /\ listed' = names
             /\ xlsx_files' = found
             /\ pc' = IF found = <<>> THEN "done" ELSE "loop"
    /\ total_files' = 0
    /\ total_words' = 0
    /\ total_skipped' = 0
    /\ all_words' = {}
    /\ UNCHANGED <<world, args, disk, disk0, opens, fi, localVars, ret, returned>>

\* line 203 and lines 143-146, 85-90: the next file is handed to
\* extract_text_from_xlsx, which starts with nothing found
NextFile ==
    /\ pc = "loop"
    /\ fi < Len(xlsx_files)
    /\ fi' = fi + 1
    /\ text_values' = {}
    /\ word_count' = 0
    /\ skipped_words' = 0
    /\ cells_read' = 0
    /\ text' = <<>>
    /\ words_to_process' = <<>>
    /\ wi' = 0
    /\ pc' = "extract"
    /\ UNCHANGED <<envVars, disk, opens, xlsx_files, total_files, total_words,
                   total_skipped, all_words, ret, returned>>

(***************************************************************************)
(* extract_text_from_xlsx                                                  *)
(***************************************************************************)
\* ProcessStep as it would be with the length tested after the cleaning
ProcessStepLengthAfterClean(raw, st, max_length, check_complexity) ==
    LET word == Strip(raw)
        cleaned == Clean(word)
    IN  IF word = <<>> \/ Len(cleaned) > max_length
        THEN [st EXCEPT !.skipped_words = @ + 1]
        ELSE IF check_complexity /\ ~is_complex_password(cleaned)
        THEN [st EXCEPT !.skipped_words = @ + 1]
        ELSE IF cleaned # <<>> /\ cleaned \notin st.text_values
        THEN [st EXCEPT !.text_values = @ \cup {cleaned}, !.word_count = @ + 1]
        ELSE st

\* ProcessStep as it would be if every accepted word were counted
ProcessStepCountsRepeats(raw, st, max_length, check_complexity) ==
    LET word == Strip(raw)
    IN  IF word = <<>> \/ Len(word) > max_length
        THEN [st EXCEPT !.skipped_words = @ + 1]
        ELSE LET cleaned == Clean(word)
             IN  IF check_complexity /\ ~is_complex_password(cleaned)
                 THEN [st EXCEPT !.skipped_words = @ + 1]
                 ELSE IF cleaned # <<>>
                 THEN [st EXCEPT !.text_values = @ \cup {cleaned},
                                 !.word_count = @ + 1]
                 ELSE st

\* lines 111-126: one turn of the loop over the candidates of a cell; st is
\* text_values, word_count and skipped_words before the turn, the value is
\* the three after it
ProcessStep(raw, st, max_length, check_complexity) ==
    LET word == Strip(raw)
    IN  IF word = <<>> \/ Len(word) > max_length
        THEN [st EXCEPT !.skipped_words = @ + 1]
        ELSE LET cleaned == Clean(word)
             IN  IF check_complexity /\ ~is_complex_password(cleaned)
                 THEN [st EXCEPT !.skipped_words = @ + 1]
                 ELSE IF cleaned # <<>> /\ cleaned \notin st.text_values
                 THEN [st EXCEPT !.text_values = @ \cup {cleaned},
                                 !.word_count = @ + 1]
                 ELSE st

\* lines 94-108: the workbook yields its next cell; a cell that is None or
\* blank is passed over, any other cell gives the candidates to process
ReadCell ==
    /\ pc = "extract"
    /\ wi = Len(words_to_process)
    /\ cells_read < MaxCells
    /\ cells_read' = cells_read + 1
    /\ \E v \in CellsOf(world) :
         IF v.kind = "none"
         THEN UNCHANGED <<text, words_to_process, wi>>
         ELSE /\ text' = Strip(StrOf(v))
              /\ IF text' = <<>>
                 THEN UNCHANGED <<words_to_process, wi>>
                 ELSE /\ words_to_process' = WordsToProcess(text', args.split_chars)
                      /\ wi' = 0
    /\ UNCHANGED <<envVars, disk, opens, pc, mainVars, text_values, word_count,
                   skipped_words, ret, returned>>

\* lines 110-126: the loop takes the next candidate
ProcessWord ==
    /\ pc = "extract"
    /\ wi < Len(words_to_process)
    /\ LET st == ProcessStep(words_to_process[wi + 1],
                             [text_values |-> text_values,
                              word_count |-> word_count,
                              skipped_words |-> skipped_words],
                             args.max_length, args.complexity)
       IN  /\ text_values' = st.text_values
           /\ word_count' = st.word_count
           /\ skipped_words' = st.skipped_words
    /\ wi' = wi + 1
    /\ UNCHANGED <<envVars, disk, opens, pc, mainVars, cells_read, text,
                   words_to_process, ret, returned>>

\* lines 134-135: the workbook has no more cells
ExtractReturn ==
    /\ pc = "extract"
    /\ wi = Len(words_to_process)
    /\ LET r == [text_values |-> text_values, word_count |-> word_count,
                 skipped_words |-> skipped_words]
       IN  /\ ret' = r
           /\ returned' = Append(returned, [result |-> r, raised |-> FALSE,
                                            had |-> word_count > 0])
    /\ pc' = "merge"
    /\ text_values' = {}
    /\ word_count' = 0
    /\ skipped_words' = 0
    /\ cells_read' = 0
    /\ text' = <<>>
    /\ words_to_process' = <<>>
    /\ wi' = 0
    /\ UNCHANGED <<envVars, disk, opens, mainVars>>

\* ExtractRaise as it would be if the handler returned what was found so far
ExtractRaiseKeepsPartial ==
    /\ pc = "extract"
    /\ LET r == [text_values |-> text_values, word_count |-> word_count,
                 skipped_words |-> skipped_words]
       IN  /\ ret' = r
           /\ returned' = Append(returned, [result |-> r, raised |-> TRUE,
                                            had |-> word_count > 0])
    /\ pc' = "merge"
    /\ text_values' = {}
    /\ word_count' = 0
    /\ skipped_words' = 0
    /\ cells_read' = 0
    /\ text' = <<>>
    /\ words_to_process' = <<>>
    /\ wi' = 0
    /\ UNCHANGED <<envVars, disk, opens, mainVars>>

\* lines 137-139: load_workbook, or the reading of a sheet, a row or a cell,
\* raises at some point of the try block
ExtractRaise ==
    /\ pc = "extract"
    /\ ret' = EmptyResult
    /\ returned' = Append(returned, [result |-> EmptyResult, raised |-> TRUE,
                                     had |-> word_count > 0])
    /\ pc' = "merge"
    /\ text_values' = {}
    /\ word_count' = 0
    /\ skipped_words' = 0
    /\ cells_read' = 0
    /\ text' = <<>>
    /\ words_to_process' = <<>>
    /\ wi' = 0
    /\ UNCHANGED <<envVars, disk, opens, mainVars>>

(***************************************************************************)
(* main: the loop over the files and the writing of the list.              *)
(***************************************************************************)
\* Merge as it would be if total_words counted the unique words
MergeCountsUnique ==
    /\ pc = "merge"
    /\ LET words == ret.text_values
           skipped == ret.skipped_words
       IN  /\ all_words' = all_words \cup words
           /\ total_files' = total_files + 1
           /\ total_words' = Cardinality(all_words \cup words)
           /\ total_skipped' = total_skipped + skipped
    /\ pc' = "loop"
    /\ UNCHANGED <<envVars, disk, opens, xlsx_files, fi, localVars, ret, returned>>

\* lines 146-155 and 204-208: process_xlsx_file hands the words and the
\* skipped count to main, which adds them to the run's totals
Merge ==
    /\ pc = "merge"
    /\ LET words == ret.text_values
           skipped == ret.skipped_words
       IN  /\ all_words' = all_words \cup words
           /\ total_files' = total_files + 1
           /\ total_words' = total_words + Cardinality(words)
           /\ total_skipped' = total_skipped + skipped
    /\ pc' = "loop"
    /\ UNCHANGED <<envVars, disk, opens, xlsx_files, fi, localVars, ret, returned>>

\* lines 211-214: every file is processed; the list is written
WriteOutput ==
    /\ pc = "loop"
    /\ fi = Len(xlsx_files)
    /\ opens' = opens + 1
    /\ disk' = [exists |-> TRUE, content |-> Written(sorted(all_words))]
    /\ pc' = "done"
    /\ UNCHANGED <<envVars, mainVars, localVars, ret, returned>>

\* line 212: open() raises and main ends with the exception
OpenFails ==
    /\ pc = "loop"
    /\ fi = Len(xlsx_files)
    /\ opens' = opens + 1
    /\ pc' = "crashed"
    /\ UNCHANGED <<envVars, disk, mainVars, localVars, ret, returned>>

Next ==
    \/ InvalidRoot
    \/ Discover
    \/ NextFile
    \/ ReadCell
    \/ ProcessWord
    \/ ExtractReturn
    \/ ExtractRaise
    \/ Merge
    \/ WriteOutput
    \/ OpenFails

Spec == Init /\ [][Next]_vars

(***************************************************************************)
(* Definitions the properties are stated with.                             *)
(***************************************************************************)
\* the loop of line 110 takes one candidate in this step
TookWord ==
    /\ pc = "extract"
    /\ pc' = "extract"
    /\ wi < Len(words_to_process)
    /\ wi' = wi + 1
    /\ words_to_process' = words_to_process

\* the candidate the loop is about to take, trimmed
Candidate == Strip(words_to_process[wi + 1])

\* the candidate the loop took last, trimmed
LastCandidate == Strip(words_to_process[wi])

\* a is before b in the order of the codepoints: they differ first at a
\* place where a has the smaller codepoint, or a is a proper prefix of b
CodepointBefore(a, b) ==
    \E k \in 1..Len(b) :
        /\ \A i \in 1..(k - 1) : i <= Len(a) /\ a[i] = b[i]
        /\ \/ k = Len(a) + 1
           \/ k <= Len(a) /\ a[k] < b[k]

\* the lines of a text file, each ended by a line feed
RECURSIVE Lines(_)
Lines(content) ==
    LET ends == {i \in 1..Len(content) : content[i] = 10}
    IN  IF ends = {} THEN (IF content = <<>> THEN <<>> ELSE <<content>>)
        ELSE LET e == CHOOSE i \in ends : \A j \in ends : i <= j
             IN  <<SubSeq(content, 1, e - 1)>> \o Lines(SubSeq(content, e + 1, Len(content)))

\* the sum of f[k] for the k of S
RECURSIVE SumOver(_, _)
SumOver(f, S) ==
    IF S = {} THEN 0
    ELSE LET k == CHOOSE x \in S : TRUE IN f[k] + SumOver(f, S \ {k})

\* the results main has merged: every call's but that of the call whose
\* result is still to be merged
MergedCalls == IF pc = "merge" THEN 1..(Len(returned) - 1) ELSE 1..Len(returned)

\* the word has a character of each of the four classes
FourClasses(word) ==
    /\ \E c \in Chars(word) : IsUpperAZ(c)
    /\ \E c \in Chars(word) : IsLowerAZ(c)
    /\ \E c \in Chars(word) : IsDigit(c)
    /\ \E c \in Chars(word) : IsSpecial(c)

\* the maximal runs of characters of s that are not in D, in order
MaximalRuns(s, D) ==
    LET starts == {i \in 1..Len(s) : s[i] \notin D /\ (i = 1 \/ s[i - 1] \in D)}
        EndOf(i) == CHOOSE j \in i..Len(s) :
                        /\ \A k \in i..j : s[k] \notin D
                        /\ (j = Len(s) \/ s[j + 1] \in D)
        Nth(n) == CHOOSE i \in starts : Cardinality({x \in starts : x < i}) = n - 1
    IN  [n \in 1..Cardinality(starts) |-> SubSeq(s, Nth(n), EndOf(Nth(n)))]

(***************************************************************************)
(* The properties.                                                         *)
(***************************************************************************)
\* C1: when a run that discovered at least one file has written its output,
\* the lines of the output are exactly the words of the sets the calls of
\* extract_text_from_xlsx returned, one word per line, each once, in
\* strictly ascending order of the codepoints.
C1_OutputIsSortedUnion ==
    (pc = "done" /\ xlsx_files # <<>>) =>
        LET lines == Lines(disk.content)
        IN  /\ disk.exists
            /\ Len(returned) = Len(xlsx_files)
            /\ {lines[i] : i \in 1..Len(lines)} =
                   UNION {returned[k].result.text_values : k \in 1..Len(returned)}
            /\ \A i, j \in 1..Len(lines) : i < j => CodepointBefore(lines[i], lines[j])

\* C1, witness: two files were processed, a word came from both, and the
\* output of at least two lines is written.
C1_Witness ==
    /\ pc = "done"
    /\ opens = 1
    /\ Len(returned) = 2
    /\ returned[1].result.text_values \cap returned[2].result.text_values # {}
    /\ Len(Lines(disk.content)) >= 2

\* C2: every word of a file's text_values, of a returned set and of
\* all_words has between 1 and max_length characters, none of them a
\* whitespace or a non-printable character.
C2_TokensAreCleanAndBounded ==
    \A t \in text_values \cup ret.text_values \cup all_words :
        /\ 1 <= Len(t)
        /\ Len(t) <= args.max_length
        /\ \A i \in 1..Len(t) : ~IsSpace(t[i]) /\ IsPrintable(t[i])

\* C2, witness: the word "a1", which only the cell that reads "a", " ",
\* ZERO WIDTH SPACE, "1" gives, is in all_words.
C2_Witness ==
    /\ pc = "done"
    /\ <<97, 49>> \in all_words

\* C3: a call of extract_text_from_xlsx that raised returned the empty
\* result; all_words, total_words and total_skipped hold what the calls that
\* did not raise returned and nothing else; main ends abnormally only at
\* the opening of the output, after every file was taken; and a run that
\* ends normally with files discovered has processed each of them and has
\* written the output.
C3_FailedFileAddsNothing ==
    /\ \A k \in 1..Len(returned) : returned[k].raised => returned[k].result = EmptyResult
    /\ LET ok == {k \in MergedCalls : ~returned[k].raised}
       IN  /\ all_words = UNION {returned[k].result.text_values : k \in ok}
           /\ total_words = SumOver([k \in ok |-> returned[k].result.word_count], ok)
           /\ total_skipped = SumOver([k \in ok |-> returned[k].result.skipped_words], ok)
    /\ pc = "crashed" => fi = Len(xlsx_files) /\ opens = 1
    /\ (pc = "done" /\ xlsx_files # <<>>) =>
           /\ Len(returned) = Len(xlsx_files)
           /\ total_files = Len(xlsx_files)
           /\ opens = 1
           /\ disk = [exists |-> TRUE, content |-> Written(sorted(all_words))]

\* C3, witness: the first file raised after a word was found in it, the
\* second file was processed and gave words, and the output is written.
C3_Witness ==
    /\ pc = "done"
    /\ Len(returned) = 2
    /\ returned[1].raised
    /\ returned[1].had
    /\ ~returned[2].raised
    /\ returned[2].result.text_values # {}
    /\ disk.exists
    /\ opens = 1

\* C4: when the root is not a directory, or the discovery has given no
\* file, no file is processed, the output path is never opened and the file
\* at the output path is what it was before the run; after its first step
\* such a run has ended.
C4_NoFilesNoOutput ==
    (~args.directory_is_dir \/ (pc # "start" /\ xlsx_files = <<>>)) =>
        /\ pc \in {"start", "done"}
        /\ opens = 0
        /\ disk = disk0
        /\ returned = <<>>
        /\ fi = 0
        /\ total_files = 0

\* C4, witness: the directory holds a file, the filename filter keeps none,
\* the run has ended, and a file was at the output path before the run.
C4_Witness ==
    /\ pc = "done"
    /\ args.directory_is_dir
    /\ listed # <<>>
    /\ xlsx_files = <<>>
    /\ disk0.exists

\* C5: a candidate that is not empty after trimming and not longer than
\* max_length, and that is empty once its whitespace and non-printable
\* characters are removed, adds exactly one to skipped_words, with the
\* complexity check on or off.
C5_EmptyAfterCleaningIsSkipped ==
    [][(/\ TookWord
        /\ Candidate # <<>>
        /\ Len(Candidate) <= args.max_length
        /\ Clean(Candidate) = <<>>) => skipped_words' = skipped_words + 1]_vars

\* C6: with split characters given, the candidates of a cell text are
\* exactly its maximal runs of characters that are not split characters, in
\* order, with no empty candidate before the first or after the last.
C6_CandidatesAreMaximalRuns ==
    (pc = "extract" /\ args.split_chars # <<>> /\ text # <<>>) =>
        words_to_process = MaximalRuns(text, Chars(args.split_chars))

\* C7: a candidate whose trimmed length exceeds max_length adds one to
\* skipped_words and puts nothing in text_values, whatever its length after
\* cleaning.
C7_TooLongBeforeCleaningIsSkipped ==
    [][(TookWord /\ Len(Candidate) > args.max_length) =>
           /\ skipped_words' = skipped_words + 1
           /\ text_values' = text_values
           /\ word_count' = word_count]_vars

\* C7, witness: the loop has taken a candidate longer than max_length whose
\* cleaned form is a word of at most max_length characters; it was skipped
\* and the word is not in text_values.
C7_Witness ==
    /\ pc = "extract"
    /\ wi >= 1
    /\ Len(LastCandidate) > args.max_length
    /\ Clean(LastCandidate) # <<>>
    /\ Len(Clean(LastCandidate)) <= args.max_length
    /\ Clean(LastCandidate) \notin text_values
    /\ skipped_words >= 1

\* C8: word_count is the size of text_values at every point, in the file
\* being read and in what is returned; a step of the loop adds one to
\* word_count exactly when it puts a new word in text_values; and a
\* candidate that passes the filter and whose word is already in
\* text_values changes none of text_values, word_count and skipped_words.
C8_FoundCountsFirstInsertions ==
    /\ [](/\ word_count = Cardinality(text_values)
          /\ ret.word_count = Cardinality(ret.text_values))
    /\ [][TookWord =>
            /\ word_count' \in {word_count, word_count + 1}
            /\ (word_count' = word_count + 1) <=> (text_values' # text_values)
            /\ text_values \subseteq text_values'
            /\ (/\ Candidate # <<>>
                /\ Len(Candidate) <= args.max_length
                /\ Clean(Candidate) \in text_values
                /\ (args.complexity => FourClasses(Clean(Candidate))))
               => UNCHANGED <<text_values, word_count, skipped_words>>]_vars

\* C8, witness: the loop has taken the same candidate twice in one cell, its
\* word is in text_values, counted once, and nothing was skipped.
C8_Witness ==
    /\ pc = "extract"
    /\ wi = 2
    /\ words_to_process[1] = words_to_process[2]
    /\ Clean(LastCandidate) \in text_values
    /\ word_count = 1
    /\ skipped_words = 0

\* C9: total_files is the number of results merged, those of the calls that
\* raised included; total_words is the sum of their word_count and, for
\* each word of all_words, counts the results that hold it; total_skipped
\* is the sum of their skipped_words; total_words is at least the number of
\* unique words; and at the end of a run with files every file is counted.
C9_TotalsAreSums ==
    /\ total_files = Cardinality(MergedCalls)
    /\ total_words = SumOver([k \in MergedCalls |-> returned[k].result.word_count],
                             MergedCalls)
    /\ total_words =
           SumOver([t \in all_words |->
                       Cardinality({k \in MergedCalls : t \in returned[k].result.text_values})],
                   all_words)
    /\ total_skipped = SumOver([k \in MergedCalls |-> returned[k].result.skipped_words],
                               MergedCalls)
    /\ total_words >= Cardinality(all_words)
    /\ (pc \in {"done", "crashed"} /\ xlsx_files # <<>>) => total_files = Len(xlsx_files)

\* C9, witness: two files are merged, a word came from both, so that
\* total_words exceeds the number of unique words, and a candidate was
\* skipped.
C9_Witness ==
    /\ pc = "done"
    /\ total_files = 2
    /\ returned[1].result.text_values \cap returned[2].result.text_values # {}
    /\ total_words > Cardinality(all_words)
    /\ total_skipped >= 1

\* C10: for a candidate that reaches the complexity check with a word that
\* is not empty: with the check on, the word is in text_values after the
\* step and nothing is skipped if it has an uppercase letter, a lowercase
\* letter, a digit and a special character, and otherwise one is added to
\* skipped_words and text_values is unchanged; with the check off the word
\* is in text_values after the step and nothing is skipped.
C10_ComplexityDecidesAcceptance ==
    [][(/\ TookWord
        /\ Candidate # <<>>
        /\ Len(Candidate) <= args.max_length
        /\ Clean(Candidate) # <<>>) =>
           IF args.complexity /\ ~FourClasses(Clean(Candidate))
           THEN /\ skipped_words' = skipped_words + 1
                /\ text_values' = text_values
                /\ word_count' = word_count
           ELSE /\ Clean(Candidate) \in text_values'
                /\ skipped_words' = skipped_words]_vars

\* C10, witness: with the check on, "Aa1" was skipped in the first cell and
\* "Aa1!" was accepted in the second.
C10_Witness ==
    /\ pc = "extract"
    /\ args.complexity
    /\ cells_read = 2
    /\ wi >= 1
    /\ LastCandidate = <<65, 97, 49, 33>>
    /\ text_values = {<<65, 97, 49, 33>>}
    /\ skipped_words = 1

=============================================================================
